---- MODULE Spec2Model ----
(***************************************************************************)
(* SafeWalk route planner (src/src/components/RouteSearch.tsx): the        *)
(* RouteSearch component's route calculation -- geocoding, route request,  *)
(* incident-density scoring, selection, drawing -- as a state machine,     *)
(* with its route history, its speech input and its debounced location     *)
(* search; the variant of the component in src/unnamed/part_000; and       *)
(* RouteAIService.retryWithBackoff (src/unnamed/part_002).                 *)
(*                                                                         *)
(* Units.  Coordinates are integers in units of 0.001 degree, relative to  *)
(* a base point; distances are whole metres; durations whole seconds.      *)
(* Scores are fixed-point numbers in units of 0.0001, so that the distance *)
(* penalty r.distance * 0.0001 of a route of d metres is exactly d.        *)
(* JavaScript numbers are records [k, v]: k = "num" with value v, "nan"    *)
(* for NaN and "ninf" for -Infinity.                                       *)
(***************************************************************************)
EXTENDS Integers, Sequences, FiniteSets, TLC

\* ------------------------------------------------------------------ bounds
MaxRoutes == 2
MaxAssaults == 3

\* ------------------------------------------------------- program constants
Radius == 3
SampleStep == 2
MaxWeight == 8
MidWeight == 5
MinWeight == 1
MaxDensityFactor == 15
AvgDensityFactor == 8
DistPenaltyInverse == 10000
\* Scores are counted in units of 0.0001, the distance penalty of one metre
ScoreScale == DistPenaltyInverse
SavedRoutesCap == 10

\* ------------------------------------------------------- JavaScript numbers
Num(n) == [k |-> "num", v |-> n]
NaN == [k |-> "nan", v |-> 0]
NegInf == [k |-> "ninf", v |-> 0]

IsNum(a) == a.k = "num"

\* a - b on coordinates (finite or NaN)
FSub(a, b) == IF IsNum(a) /\ IsNum(b) THEN Num(a.v - b.v) ELSE NaN

\* a * b on coordinates (finite or NaN)
FMul(a, b) == IF IsNum(a) /\ IsNum(b) THEN Num(a.v * b.v) ELSE NaN

\* a + b where neither is infinite
FAdd(a, b) == IF IsNum(a) /\ IsNum(b) THEN Num(a.v + b.v) ELSE NaN

\* JavaScript a < b: false as soon as one side is NaN
FLess(a, b) ==
  /\ a.k # "nan"
  /\ b.k # "nan"
  /\ \/ a.k = "ninf" /\ b.k = "num"
     \/ a.k = "num" /\ b.k = "num" /\ a.v < b.v

\* JavaScript a > b
FGreater(a, b) == FLess(b, a)

\* JavaScript a <= b
FLessEq(a, b) == FLess(a, b) \/ (a.k = b.k /\ a.k # "nan" /\ a.v = b.v)

\* ----------------------------------------------------------------- strings
\* A string is the sequence of its characters.
Upper == <<"A","B","C","D","E","F","G","H","I","J","K","L","M",
           "N","O","P","Q","R","S","T","U","V","W","X","Y","Z">>
Lower == <<"a","b","c","d","e","f","g","h","i","j","k","l","m",
           "n","o","p","q","r","s","t","u","v","w","x","y","z">>

\* The lower-case letter of each upper-case letter
LowerOf == [i \in 1..Len(Upper) |-> Lower[i]]
UpperIndex == [c \in {Upper[i] : i \in 1..Len(Upper)} |->
                 CHOOSE i \in 1..Len(Upper) : Upper[i] = c]

LowerChar(c) == IF c \in DOMAIN UpperIndex THEN LowerOf[UpperIndex[c]] ELSE c

\* String.prototype.toLowerCase
ToLowerCase(s) == [i \in 1..Len(s) |-> LowerChar(s[i])]

\* String.prototype.includes
Includes(s, sub) ==
  \E i \in 1..(Len(s) - Len(sub) + 1) : SubSeq(s, i, i + Len(sub) - 1) = sub

StrAssault == <<"a","s","s","a","u","l","t">>
StrRobbery == <<"r","o","b","b","e","r","y">>
StrBurglary == <<"b","u","r","g","l","a","r","y">>
StrTheft == <<"t","h","e","f","t">>

\* parseFloat on the coordinate strings of the incident data set: the
\* leading decimal number of the string, NaN when there is none.
ParseFloat(s) ==
  CASE s = "0" -> Num(0)
    [] s = "2" -> Num(2)
    [] s = "3" -> Num(3)
    [] s = "10" -> Num(10)
    [] s = "3 N" -> Num(3)
    [] OTHER -> NaN

\* ------------------------------------------------------ incident density
\* Mutant of CrimeWeight: the burglary/theft tier is tested first
CrimeWeightTheftFirst(ofns_desc) ==
  LET desc == ToLowerCase(ofns_desc) IN
    IF Includes(desc, StrBurglary) \/ Includes(desc, StrTheft) THEN MidWeight
    ELSE IF Includes(desc, StrAssault) \/ Includes(desc, StrRobbery) THEN MaxWeight
    ELSE MinWeight

\* The severity weight of an offence description.
CrimeWeight(ofns_desc) ==
  LET desc == ToLowerCase(ofns_desc) IN
    IF Includes(desc, StrAssault) \/ Includes(desc, StrRobbery) THEN MaxWeight
    ELSE IF Includes(desc, StrBurglary) \/ Includes(desc, StrTheft) THEN MidWeight
    ELSE MinWeight

\* dLat*dLat + dLon*dLon, the square of the degree-space distance between
\* the incident and the point (lat, lon)
DistanceSquared(crime, lat, lon) ==
  LET dLat == FSub(ParseFloat(crime.latitude), Num(lat))
      dLon == FSub(ParseFloat(crime.longitude), Num(lon))
  IN FAdd(FMul(dLat, dLat), FMul(dLon, dLon))

\* Mutant of DistanceExceeds: the boundary excluded too, distance >= radius
DistanceExceedsOrEquals(distSq, radius) ==
  FGreater(distSq, Num(radius * radius)) \/ distSq = Num(radius * radius)

\* distance > radius, where distance = Math.sqrt(distSq): the square root is
\* monotone, so the comparison is made on the squares; NaN compares false.
DistanceExceeds(distSq, radius) == FGreater(distSq, Num(radius * radius))

\* Mutant of DensityStep: the comparison turned round, distance < radius
DensityStepFlipped(sum, crime, lat, lon, radius) ==
  IF FLess(DistanceSquared(crime, lat, lon), Num(radius * radius))
    THEN sum
    ELSE sum + CrimeWeight(crime.ofns_desc)

\* Mutant of DensityStep: every incident counts 1, whatever its description
DensityStepUnweighted(sum, crime, lat, lon, radius) ==
  IF DistanceExceeds(DistanceSquared(crime, lat, lon), radius)
    THEN sum
    ELSE sum + MinWeight

\* The callback of crimeData.reduce in calculateCrimeDensity.
DensityStep(sum, crime, lat, lon, radius) ==
  IF DistanceExceeds(DistanceSquared(crime, lat, lon), radius)
    THEN sum
    ELSE sum + CrimeWeight(crime.ofns_desc)

RECURSIVE DensityFold(_, _, _, _, _, _)
DensityFold(data, i, sum, lat, lon, radius) ==
  IF i > Len(data) THEN sum
  ELSE DensityFold(data, i + 1, DensityStep(sum, data[i], lat, lon, radius),
                   lat, lon, radius)

calculateCrimeDensity(data, lat, lon, radius) ==
  DensityFold(data, 1, 0, lat, lon, radius)

\* ------------------------------------------------------------ route score
RECURSIVE SqrtSearch(_, _, _)
SqrtSearch(n, lo, hi) ==
  IF lo = hi THEN lo
  ELSE LET mid == (lo + hi + 1) \div 2 IN
         IF mid * mid <= n THEN SqrtSearch(n, mid, hi)
         ELSE SqrtSearch(n, lo, mid - 1)

\* Math.pow(dens, 2.5) = dens^2 * sqrt(dens) in score units, the square root
\* truncated to three decimals.
Pow25(dens) == dens * dens * SqrtSearch(dens * 1000000, 0, 46340) * (ScoreScale \div 1000)

\* r.geometry.coordinates.map(([lon,lat]) => [lat,lon])
ToCoords(geometry) == [i \in 1..Len(geometry) |-> <<geometry[i][2], geometry[i][1]>>]

\* Mutant of CrimeScoreFold: every point is sampled
RECURSIVE CrimeScoreFoldAll(_, _, _, _)
CrimeScoreFoldAll(coords, data, i, tot) ==
  IF i > Len(coords) THEN tot
  ELSE LET dens == calculateCrimeDensity(data, coords[i][1], coords[i][2], Radius)
       IN CrimeScoreFoldAll(coords, data, i + 1,
            tot + (IF dens > 0 THEN Pow25(dens) ELSE 0))

RECURSIVE CrimeScoreFold(_, _, _, _)
CrimeScoreFold(coords, data, i, tot) ==
  IF i > Len(coords) THEN tot
  ELSE LET dens == calculateCrimeDensity(data, coords[i][1], coords[i][2], Radius)
       IN CrimeScoreFold(coords, data, i + 1,
            IF (i - 1) % SampleStep = 0
              THEN tot + (IF dens > 0 THEN Pow25(dens) ELSE 0)
              ELSE tot)

\* crimeScore: the sampled sum of density^2.5, in score units
CrimeScore(coords, data) == CrimeScoreFold(coords, data, 1, 0)

RECURSIVE MaxFold(_, _, _)
MaxFold(xs, i, m) ==
  IF i > Len(xs) THEN m
  ELSE MaxFold(xs, i + 1, IF FLess(m, Num(xs[i])) THEN Num(xs[i]) ELSE m)

\* Mutant of MaxDensity: the maximum over the sampled points only
MaxDensitySampled(coords, data) ==
  LET dens == [i \in 1..((Len(coords) + SampleStep - 1) \div SampleStep) |->
                 calculateCrimeDensity(data, coords[SampleStep * i - 1][1],
                                       coords[SampleStep * i - 1][2], Radius)]
  IN MaxFold(dens, 1, NegInf)

\* Math.max(...coords.map(density)): -Infinity for no argument
MaxDensity(coords, data) ==
  LET dens == [i \in 1..Len(coords) |->
                 calculateCrimeDensity(data, coords[i][1], coords[i][2], Radius)]
  IN MaxFold(dens, 1, NegInf)

\* Mutant of AvgDensity: crimeScore divided by the number of sampled points
AvgDensitySampled(crimeScore, n) ==
  IF n = 0 THEN NaN ELSE Num(crimeScore \div ((n + SampleStep - 1) \div SampleStep))

\* crimeScore / coords.length, in score units: 0/0 is NaN
AvgDensity(crimeScore, n) ==
  IF n = 0 THEN NaN ELSE Num(crimeScore \div n)

\* Mutant of DistPenalty: no penalty for the distance
DistPenaltyDropped(distance) == distance - distance

\* Mutant of DistPenalty: the penalty taken off instead of added
DistPenaltyNegated(distance) == 0 - (distance * ScoreScale) \div DistPenaltyInverse

\* r.distance * 0.0001, in score units
DistPenalty(distance) == (distance * ScoreScale) \div DistPenaltyInverse

\* a * c for a positive finite c
FScale(a, c) == IF IsNum(a) THEN Num(a.v * c) ELSE a

\* a + b with NaN and -Infinity
FPlus(a, b) ==
  IF a.k = "nan" \/ b.k = "nan" THEN NaN
  ELSE IF a.k = "ninf" \/ b.k = "ninf" THEN NegInf
  ELSE Num(a.v + b.v)

\* score: crimeScore + maxD*15 + avgD*8 + distP
RouteScore(r, data) ==
  LET coords == ToCoords(r.geometry)
      crimeScore == CrimeScore(coords, data)
      maxD == MaxDensity(coords, data)
      avgD == AvgDensity(crimeScore, Len(coords))
      distP == DistPenalty(r.distance)
  IN FPlus(FPlus(FPlus(Num(crimeScore), FScale(maxD, MaxDensityFactor * ScoreScale)),
                 FScale(avgD, AvgDensityFactor)),
           Num(distP))

\* -------------------------------------------------------- route selection
Undefined == [k |-> "undef", v |-> 0]

\* One element of `scored`
ScoredRoute(r, data) ==
  [coords |-> ToCoords(r.geometry), duration |-> r.duration,
   distance |-> r.distance, score |-> RouteScore(r, data)]

\* Mutant of ReduceScored: the comparison reversed, b.score > a.score
RECURSIVE ReduceScoredReversed(_, _, _)
ReduceScoredReversed(scored, i, a) ==
  IF i > Len(scored) THEN a
  ELSE ReduceScoredReversed(scored, i + 1,
                            IF FGreater(scored[i].score, a.score) THEN scored[i] ELSE a)

\* Mutant of ReduceScored: the comparison not strict, b.score <= a.score
RECURSIVE ReduceScoredLastTie(_, _, _)
ReduceScoredLastTie(scored, i, a) ==
  IF i > Len(scored) THEN a
  ELSE ReduceScoredLastTie(scored, i + 1,
                           IF FLessEq(scored[i].score, a.score) THEN scored[i] ELSE a)

\* scored.reduce((a, b) => b.score < a.score ? b : a), from element i on
RECURSIVE ReduceScored(_, _, _)
ReduceScored(scored, i, a) ==
  IF i > Len(scored) THEN a
  ELSE ReduceScored(scored, i + 1,
                    IF FLess(scored[i].score, a.score) THEN scored[i] ELSE a)

\* routes.reduce((a, b) => b.distance < a.distance ? b : a), from element i on
RECURSIVE ReduceShortest(_, _, _)
ReduceShortest(rs, i, a) ==
  IF i > Len(rs) THEN a
  ELSE ReduceShortest(rs, i + 1, IF rs[i].distance < a.distance THEN rs[i] ELSE a)

\* The safest branch: score every route, keep the first of least score.
SafestChoice(rs, data) ==
  LET scored == [i \in 1..Len(rs) |-> ScoredRoute(rs[i], data)]
  IN ReduceScored(scored, 2, scored[1])

\* Mutant of ShortestChoice: the duration is read from the first route
ShortestChoiceMixed(rs) ==
  LET shortest == ReduceShortest(rs, 2, rs[1])
  IN [coords |-> ToCoords(shortest.geometry), duration |-> rs[1].duration,
      distance |-> shortest.distance, score |-> Undefined]

\* The other branch: the first route of least distance, without a score.
ShortestChoice(rs) ==
  LET shortest == ReduceShortest(rs, 2, rs[1])
  IN [coords |-> ToCoords(shortest.geometry), duration |-> shortest.duration,
      distance |-> shortest.distance, score |-> Undefined]

\* Mutant of UsesScoring: the route type is not looked at
UsesScoringAnyType(rs, type) == Len(rs) > 1

\* Mutant of UsesScoring: a single route is scored too, routes.length >= 1
UsesScoringSingle(rs, type) == type = "safest" /\ Len(rs) >= 1

\* routeType === 'safest' && routes.length > 1
UsesScoring(rs, type) == type = "safest" /\ Len(rs) > 1

\* `chosen` for a non-empty list of routes
ChooseRoute(rs, type, data) ==
  IF UsesScoring(rs, type) THEN SafestChoice(rs, data) ELSE ShortestChoice(rs)

\* The number of calculateCrimeDensity calls the choice makes: one per
\* sampled point and one per point of every route, none without scoring.
RECURSIVE DensityCallsFold(_, _)
DensityCallsFold(rs, i) ==
  IF i > Len(rs) THEN 0
  ELSE LET n == Len(rs[i].geometry)
       IN ((n + SampleStep - 1) \div SampleStep) + n + DensityCallsFold(rs, i + 1)

DensityCalls(rs, type) == IF UsesScoring(rs, type) THEN DensityCallsFold(rs, 1) ELSE 0

\* ------------------------------------------------------------------ inputs
\* Points as the routing service gives them, <<lon, lat>>
Near == <<0, 0>>
Far == <<0, 10>>
Far2 == <<2, 10>>

Metrics == { [distance |-> 1000, duration |-> 900],
             [distance |-> 1400, duration |-> 700] }

\* The routes a response may hold: every geometry of two points with each
\* of the metrics, and two degenerate ones, without points and with one.
Routes ==
  { [geometry |-> g, duration |-> m.duration, distance |-> m.distance] :
      g \in { <<Near, Far>>, <<Far, Near>>, <<Far, Far2>> }, m \in Metrics }
  \cup
  { [geometry |-> g, duration |-> 900, distance |-> 1000] : g \in { <<>>, <<Near>> } }

\* resp.data.routes: missing, or a list of at most MaxRoutes routes
NoRoutesField == [present |-> FALSE, list |-> <<>>]
Responses ==
  {NoRoutesField} \cup
  { [present |-> TRUE, list |-> l] : l \in UNION { [1..n -> Routes] : n \in 0..MaxRoutes } }

DescAssault == <<"A","S","S","A","U","L","T"," ","3">>
DescBurglary == <<"B","U","R","G","L","A","R","Y">>
DescFrauds == <<"F","R","A","U","D","S">>

\* An assault at Near, a burglary 0.003 degrees north of Near, and a fraud
\* whose latitude is not a number.
IncidentAssault == [latitude |-> "0", longitude |-> "0", ofns_desc |-> DescAssault]
IncidentBurglary == [latitude |-> "3", longitude |-> "0", ofns_desc |-> DescBurglary]
IncidentFraud == [latitude |-> "n/a", longitude |-> "0", ofns_desc |-> DescFrauds]

\* The data sets a fetch may return: up to MaxAssaults assaults, then the
\* burglary or not, then the fraud or not.
CrimeDataSets ==
  { [i \in 1..a |-> IncidentAssault]
      \o (IF b THEN <<IncidentBurglary>> ELSE <<>>)
      \o (IF f THEN <<IncidentFraud>> ELSE <<>>) :
    a \in 0..MaxAssaults, b \in BOOLEAN, f \in BOOLEAN }

StartTexts == {"", "Penn Station"}
EndTexts == {"", "Bryant Park"}
RouteTypes == {"fastest", "safest"}
TransportModes == {"walking", "driving"}

MsgNotFound == "Could not find one of the locations."
MsgNoRoutes == "No routes returned."
MsgNetwork == "Network Error"
MsgBounds == "Bounds are not valid."

Null == [null |-> TRUE]

\* `let timeout` of a debounce closure that has set no timer yet
NoTimer == 0

\* retryWithBackoff not running
RetryIdle ==
  [pc |-> "idle", maxRetries |-> 0, retries |-> 0, delay |-> 0, invocations |-> 0,
   wait |-> 0, last |-> Null]

\* ------------------------------------------------------------------- state
VARIABLES
  startLocation,   \* useState('') : the start text field
  endLocation,     \* useState('') : the end text field
  routeType,       \* useState('fastest')
  transportMode,   \* useState('walking')
  isCalculating,   \* useState(false)
  crimeData,       \* useState([]) : the incident data set
  crimeFetch,      \* the request of the data set: "pending", "done", "failed"
  routeInfo,       \* useState(null) : Null or [duration, distance]
  currentRoute,    \* currentRouteRef.current : Null or the polyline on the map
  startMarker,     \* startMarkerRef.current is set
  endMarker,       \* endMarkerRef.current is set
  savedRoutes,     \* useState([]) : the route history, newest first
  storedRoutes,    \* localStorage 'savedRoutes'
  clock,           \* Date.now()
  pc,              \* where calculateRoute stands: "idle", "geocoding", "routing"
  closure,         \* the state the running calculateRoute was created with
  geocoded,        \* the running calculation's geocoding answer, or Null
  response,        \* the running calculation's route response, or Null
  chosen,          \* the running calculation's `chosen`, or Null
  densityCalls,    \* calculateCrimeDensity calls made by the calculation
  routeRequests,   \* route requests made by the calculation
  alertMsg,        \* the message of the calculation's alert, "" for none
  routeUpdate,     \* the routeData the calculation gave onRouteUpdate, or Null
  voice,           \* speech input: "idle", "processing", "scheduled"
  debounceTimeout, \* `timeout` of the current render's debounce closure, or Null
  searchTimers,    \* the pending debounce timers, in the order they are due
  searchRequests,  \* the location searches requested and not yet answered
  retry            \* retryWithBackoff: where it stands and its locals

vars ==
  << startLocation, endLocation, routeType, transportMode, isCalculating,
     crimeData, crimeFetch, routeInfo, currentRoute, startMarker, endMarker,
     savedRoutes, storedRoutes, clock, pc, closure, geocoded, response, chosen,
     densityCalls, routeRequests, alertMsg, routeUpdate,
     voice, debounceTimeout, searchTimers, searchRequests, retry >>

uiVars == << startLocation, endLocation, routeType, transportMode >>
mapVars == << currentRoute, startMarker, endMarker >>
historyVars == << savedRoutes, storedRoutes, clock >>
calcVars == << geocoded, response, chosen, densityCalls, routeRequests, alertMsg, routeUpdate >>
searchVars == << debounceTimeout, searchTimers, searchRequests >>
\* What the route planner's own handlers never touch
sideVars == << voice, debounceTimeout, searchTimers, searchRequests, retry >>

Init ==
  /\ startLocation = ""
  /\ endLocation = ""
  /\ routeType = "fastest"
  /\ transportMode = "walking"
  /\ isCalculating = FALSE
  /\ crimeData = <<>>
  /\ crimeFetch = "pending"
  /\ routeInfo = Null
  /\ currentRoute = Null
  /\ startMarker = FALSE
  /\ endMarker = FALSE
  /\ savedRoutes = <<>>
  /\ storedRoutes = <<>>
  /\ clock = 0
  /\ pc = "idle"
  /\ closure = Null
  /\ geocoded = Null
  /\ response = Null
  /\ chosen = Null
  /\ densityCalls = 0
  /\ routeRequests = 0
  /\ alertMsg = ""
  /\ routeUpdate = Null
  /\ voice = "idle"
  /\ debounceTimeout = NoTimer
  /\ searchTimers = <<>>
  /\ searchRequests = <<>>
  /\ retry = RetryIdle

\* ---------------------------------------------------------- location search
DebounceWait == 300
MinQueryLength == 2

\* query.length of the texts typed and chosen
TextLength(text) ==
  CASE text = "" -> 0
    [] text \in {"P", "B"} -> 1
    [] text \in {"Pe", "Br"} -> 2
    [] text = "Pen" -> 3
    [] text = "Bryant Park" -> 11
    [] text = "Penn Station" -> 12

\* An identifier no pending timer has
NewTimerId(timers) ==
  LET ids == { timers[i].id : i \in DOMAIN timers }
      free == (1..(Len(timers) + 1)) \ ids
  IN CHOOSE m \in free : \A k \in free : m <= k

\* The function debounce returns, called with (query, setSuggestions) by a
\* closure whose `timeout` holds `timeout`: clearTimeout(timeout), then
\* timeout = setTimeout(() => func(...args), wait)
DebouncedCall(timeout, timers, query, field) ==
  LET cleared == SelectSeq(timers, LAMBDA t : t.id # timeout)
      id == NewTimerId(cleared)
  IN [timers |-> Append(cleared, [id |-> id, query |-> query, field |-> field,
                                  wait |-> DebounceWait]),
      timeout |-> id]

\* ------------------------------------------------------------- user input
\* onChange of the start field: setStartLocation, debouncedSearch; the
\* render that follows makes a new debounce closure, which has set no timer
SetStartLocation(text) ==
  /\ text # startLocation
  /\ startLocation' = text
  /\ searchTimers' = DebouncedCall(debounceTimeout, searchTimers, text, "start").timers
  /\ debounceTimeout' = NoTimer
  /\ UNCHANGED << endLocation, routeType, transportMode, isCalculating, crimeData,
                  crimeFetch, routeInfo, mapVars, historyVars, pc, closure, calcVars >>
  /\ UNCHANGED << voice, searchRequests, retry >>

\* onChange of the end field
SetEndLocation(text) ==
  /\ text # endLocation
  /\ endLocation' = text
  /\ searchTimers' = DebouncedCall(debounceTimeout, searchTimers, text, "end").timers
  /\ debounceTimeout' = NoTimer
  /\ UNCHANGED << startLocation, routeType, transportMode, isCalculating, crimeData,
                  crimeFetch, routeInfo, mapVars, historyVars, pc, closure, calcVars >>
  /\ UNCHANGED << voice, searchRequests, retry >>

\* The timer due first fires: the function given to debounce runs, and
\* requests the search unless the query is shorter than two characters
SearchTimer ==
  /\ searchTimers # <<>>
  /\ searchTimers' = Tail(searchTimers)
  /\ searchRequests' =
       IF TextLength(Head(searchTimers).query) < MinQueryLength
         THEN searchRequests
         ELSE Append(searchRequests, [query |-> Head(searchTimers).query,
                                      field |-> Head(searchTimers).field])
  /\ UNCHANGED << uiVars, isCalculating, crimeData, crimeFetch, routeInfo, mapVars,
                  historyVars, pc, closure, calcVars, voice, debounceTimeout, retry >>

\* A search request is answered or fails: setSuggestions
SearchSettles(i) ==
  /\ i \in DOMAIN searchRequests
  /\ searchRequests' = [j \in 1..(Len(searchRequests) - 1) |->
                          IF j < i THEN searchRequests[j] ELSE searchRequests[j + 1]]
  /\ UNCHANGED << uiVars, isCalculating, crimeData, crimeFetch, routeInfo, mapVars,
                  historyVars, pc, closure, calcVars, voice, debounceTimeout,
                  searchTimers, retry >>

\* No timer is pending and no search is under way
SearchIdle == searchTimers = <<>> /\ searchRequests = <<>>

\* onChange of the route type select, and the effect on [routeType]:
\* clearCurrentRoute
SetRouteType(type) ==
  /\ type # routeType
  /\ routeType' = type
  /\ currentRoute' = Null
  /\ startMarker' = FALSE
  /\ endMarker' = FALSE
  /\ UNCHANGED << startLocation, endLocation, transportMode, isCalculating, crimeData,
                  crimeFetch, routeInfo, historyVars, pc, closure, calcVars >>
  /\ UNCHANGED sideVars

\* onChange of the transport mode select
SetTransportMode(mode) ==
  /\ mode # transportMode
  /\ transportMode' = mode
  /\ UNCHANGED << startLocation, endLocation, routeType, isCalculating, crimeData,
                  crimeFetch, routeInfo, mapVars, historyVars, pc, closure, calcVars >>
  /\ UNCHANGED sideVars

\* ------------------------------------------------------------ incident data
\* fetchCrimeData: the request answers with a data set
CrimeDataLoaded(data) ==
  /\ crimeFetch = "pending"
  /\ crimeFetch' = "done"
  /\ crimeData' = data
  /\ UNCHANGED << uiVars, isCalculating, routeInfo, mapVars, historyVars, pc,
                  closure, calcVars >>
  /\ UNCHANGED sideVars

\* fetchCrimeData: the request fails; the error is logged
CrimeDataFailed ==
  /\ crimeFetch = "pending"
  /\ crimeFetch' = "failed"
  /\ UNCHANGED << uiVars, isCalculating, crimeData, routeInfo, mapVars, historyVars,
                  pc, closure, calcVars >>
  /\ UNCHANGED sideVars

\* ----------------------------------------------------------- route history
\* saveRoute's duplicate test, on the history the closure holds
IsDuplicate(route, saved) ==
  \E i \in 1..Len(saved) :
    /\ saved[i].startLocation = route.startLocation
    /\ saved[i].endLocation = route.endLocation
    /\ saved[i].transportMode = route.transportMode
    /\ saved[i].routeType = route.routeType

\* Mutant of UpdatedRoutes: the slice left out
UpdatedRoutesUncapped(route, saved) == <<route>> \o saved

\* [newRoute, ...savedRoutes].slice(0, 10)
UpdatedRoutes(route, saved) ==
  LET all == <<route>> \o saved
  IN SubSeq(all, 1, IF Len(all) < SavedRoutesCap THEN Len(all) ELSE SavedRoutesCap)

\* saveRoute's newRoute, from the state the closure holds
NewRoute(cl, now) ==
  [startLocation |-> cl.startLocation, endLocation |-> cl.endLocation,
   transportMode |-> cl.transportMode, routeType |-> cl.routeType,
   timestamp |-> now]

\* saveRoute writes: both texts are set and the route is no duplicate
SaveWrites(cl) ==
  /\ cl.startLocation # ""
  /\ cl.endLocation # ""
  /\ ~IsDuplicate(NewRoute(cl, 0), cl.savedRoutes)

\* ---------------------------------------------------------- calculateRoute
\* The catch and finally blocks: alert(err.message), setIsCalculating(false)
Fail(msg) ==
  /\ alertMsg' = msg
  /\ isCalculating' = FALSE
  /\ pc' = "idle"

\* Mutant of CalcStart: the guard does not test isCalculating
CalcStartUnguarded ==
  /\ startLocation # ""
  /\ endLocation # ""
  /\ isCalculating' = TRUE
  /\ currentRoute' = Null
  /\ startMarker' = FALSE
  /\ endMarker' = FALSE
  /\ routeInfo' = Null
  /\ closure' = [startLocation |-> startLocation, endLocation |-> endLocation,
                 routeType |-> routeType, transportMode |-> transportMode,
                 crimeData |-> crimeData, savedRoutes |-> savedRoutes]
  /\ pc' = "geocoding"
  /\ geocoded' = Null
  /\ response' = Null
  /\ chosen' = Null
  /\ densityCalls' = 0
  /\ routeRequests' = 0
  /\ alertMsg' = ""
  /\ routeUpdate' = Null
  /\ UNCHANGED << uiVars, crimeData, crimeFetch, historyVars >>
  /\ UNCHANGED sideVars

\* Mutant of CalcStart: setRouteInfo(null) left out
CalcStartKeepsRouteInfo ==
  /\ startLocation # ""
  /\ endLocation # ""
  /\ ~isCalculating
  /\ isCalculating' = TRUE
  /\ currentRoute' = Null
  /\ startMarker' = FALSE
  /\ endMarker' = FALSE
  /\ closure' = [startLocation |-> startLocation, endLocation |-> endLocation,
                 routeType |-> routeType, transportMode |-> transportMode,
                 crimeData |-> crimeData, savedRoutes |-> savedRoutes]
  /\ pc' = "geocoding"
  /\ geocoded' = Null
  /\ response' = Null
  /\ chosen' = Null
  /\ densityCalls' = 0
  /\ routeRequests' = 0
  /\ alertMsg' = ""
  /\ routeUpdate' = Null
  /\ UNCHANGED << uiVars, crimeData, crimeFetch, routeInfo, historyVars >>
  /\ UNCHANGED sideVars

\* The handler up to its first await: guard, setIsCalculating(true),
\* clearCurrentRoute, setRouteInfo(null), and the two geocoding requests.
CalcStart ==
  /\ startLocation # ""
  /\ endLocation # ""
  /\ ~isCalculating
  /\ isCalculating' = TRUE
  /\ currentRoute' = Null
  /\ startMarker' = FALSE
  /\ endMarker' = FALSE
  /\ routeInfo' = Null
  /\ closure' = [startLocation |-> startLocation, endLocation |-> endLocation,
                 routeType |-> routeType, transportMode |-> transportMode,
                 crimeData |-> crimeData, savedRoutes |-> savedRoutes]
  /\ pc' = "geocoding"
  /\ geocoded' = Null
  /\ response' = Null
  /\ chosen' = Null
  /\ densityCalls' = 0
  /\ routeRequests' = 0
  /\ alertMsg' = ""
  /\ routeUpdate' = Null
  /\ UNCHANGED << uiVars, crimeData, crimeFetch, historyVars >>
  /\ UNCHANGED sideVars

\* Mutant of GeocodeResolve: a missing location is reported with the message
\* of a missing route
GeocodeResolveSameMessage(startFound, endFound) ==
  /\ pc = "geocoding"
  /\ geocoded' = [start |-> startFound, end |-> endFound]
  /\ IF ~startFound \/ ~endFound
       THEN /\ Fail(MsgNoRoutes)
            /\ UNCHANGED << startMarker, endMarker, routeRequests >>
       ELSE /\ startMarker' = TRUE
            /\ endMarker' = TRUE
            /\ routeRequests' = routeRequests + 1
            /\ pc' = "routing"
            /\ UNCHANGED << alertMsg, isCalculating >>
  /\ UNCHANGED << uiVars, crimeData, crimeFetch, routeInfo, currentRoute, historyVars,
                  closure, response, chosen, densityCalls, routeUpdate >>
  /\ UNCHANGED sideVars

\* Both geocoding requests answered: startFound and endFound tell whether
\* each answer holds a result. With both, the markers are put on the map and
\* the route request is made.
GeocodeResolve(startFound, endFound) ==
  /\ pc = "geocoding"
  /\ geocoded' = [start |-> startFound, end |-> endFound]
  /\ IF ~startFound \/ ~endFound
       THEN /\ Fail(MsgNotFound)
            /\ UNCHANGED << startMarker, endMarker, routeRequests >>
       ELSE /\ startMarker' = TRUE
            /\ endMarker' = TRUE
            /\ routeRequests' = routeRequests + 1
            /\ pc' = "routing"
            /\ UNCHANGED << alertMsg, isCalculating >>
  /\ UNCHANGED << uiVars, crimeData, crimeFetch, routeInfo, currentRoute, historyVars,
                  closure, response, chosen, densityCalls, routeUpdate >>
  /\ UNCHANGED sideVars

\* Mutant of GeocodeReject: the failing calculation empties the incident data
GeocodeRejectClearsData ==
  /\ pc = "geocoding"
  /\ Fail(MsgNetwork)
  /\ crimeData' = <<>>
  /\ UNCHANGED << uiVars, crimeFetch, routeInfo, mapVars, historyVars,
                  closure, geocoded, response, chosen, densityCalls, routeRequests,
                  routeUpdate >>
  /\ UNCHANGED sideVars

\* A geocoding request fails
GeocodeReject ==
  /\ pc = "geocoding"
  /\ Fail(MsgNetwork)
  /\ UNCHANGED << uiVars, crimeData, crimeFetch, routeInfo, mapVars, historyVars,
                  closure, geocoded, response, chosen, densityCalls, routeRequests,
                  routeUpdate >>
  /\ UNCHANGED sideVars

\* !routes || !routes.length
NoRoutes(resp) == ~resp.present \/ Len(resp.list) = 0

\* Mutant of RouteResolve: when driving, the shortest route is chosen
\* whatever the route type
RouteResolveByMode(resp) ==
  /\ pc = "routing"
  /\ response' = resp
  /\ IF NoRoutes(resp)
       THEN /\ Fail(MsgNoRoutes)
            /\ UNCHANGED << routeInfo, currentRoute, historyVars, chosen,
                            densityCalls, routeUpdate >>
       ELSE /\ chosen' = ChooseRoute(resp.list,
                                     IF closure.transportMode = "driving"
                                       THEN "fastest" ELSE closure.routeType,
                                     closure.crimeData)
            /\ densityCalls' = DensityCalls(resp.list, closure.routeType)
            /\ routeInfo' = [duration |-> chosen'.duration, distance |-> chosen'.distance]
            /\ currentRoute' = [coords |-> chosen'.coords, routeType |-> closure.routeType,
                                transportMode |-> closure.transportMode]
            /\ IF Len(chosen'.coords) = 0
                 THEN /\ Fail(MsgBounds)
                      /\ UNCHANGED << historyVars, routeUpdate >>
                 ELSE /\ IF SaveWrites(closure)
                           THEN /\ savedRoutes' =
                                     UpdatedRoutes(NewRoute(closure, clock + 1),
                                                   closure.savedRoutes)
                                /\ storedRoutes' = savedRoutes'
                                /\ clock' = clock + 1
                           ELSE UNCHANGED historyVars
                      /\ routeUpdate' = [path |-> chosen'.coords,
                                         distance |-> chosen'.distance,
                                         duration |-> chosen'.duration]
                      /\ isCalculating' = FALSE
                      /\ pc' = "idle"
                      /\ UNCHANGED alertMsg
  /\ UNCHANGED << uiVars, crimeData, crimeFetch, startMarker, endMarker, closure,
                  geocoded, routeRequests >>
  /\ UNCHANGED sideVars

\* The route request answered with resp: choose, setRouteInfo, draw the
\* polyline, fit the map (Leaflet's fitBounds throws on the empty bounds of a
\* polyline without points), saveRoute, onRouteUpdate; then finally.
RouteResolve(resp) ==
  /\ pc = "routing"
  /\ response' = resp
  /\ IF NoRoutes(resp)
       THEN /\ Fail(MsgNoRoutes)
            /\ UNCHANGED << routeInfo, currentRoute, historyVars, chosen,
                            densityCalls, routeUpdate >>
       ELSE /\ chosen' = ChooseRoute(resp.list, closure.routeType, closure.crimeData)
            /\ densityCalls' = DensityCalls(resp.list, closure.routeType)
            /\ routeInfo' = [duration |-> chosen'.duration, distance |-> chosen'.distance]
            /\ currentRoute' = [coords |-> chosen'.coords, routeType |-> closure.routeType,
                                transportMode |-> closure.transportMode]
            /\ IF Len(chosen'.coords) = 0
                 THEN /\ Fail(MsgBounds)
                      /\ UNCHANGED << historyVars, routeUpdate >>
                 ELSE /\ IF SaveWrites(closure)
                           THEN /\ savedRoutes' =
                                     UpdatedRoutes(NewRoute(closure, clock + 1),
                                                   closure.savedRoutes)
                                /\ storedRoutes' = savedRoutes'
                                /\ clock' = clock + 1
                           ELSE UNCHANGED historyVars
                      /\ routeUpdate' = [path |-> chosen'.coords,
                                         distance |-> chosen'.distance,
                                         duration |-> chosen'.duration]
                      /\ isCalculating' = FALSE
                      /\ pc' = "idle"
                      /\ UNCHANGED alertMsg
  /\ UNCHANGED << uiVars, crimeData, crimeFetch, startMarker, endMarker, closure,
                  geocoded, routeRequests >>
  /\ UNCHANGED sideVars

\* Mutant of RouteReject: no finally block
RouteRejectNoFinally ==
  /\ pc = "routing"
  /\ alertMsg' = MsgNetwork
  /\ pc' = "idle"
  /\ UNCHANGED << uiVars, isCalculating, crimeData, crimeFetch, routeInfo, mapVars,
                  historyVars, closure, geocoded, response, chosen, densityCalls,
                  routeRequests, routeUpdate >>
  /\ UNCHANGED sideVars

\* Mutant of RouteReject: saveRoute runs in the finally block
RouteRejectSaving ==
  /\ pc = "routing"
  /\ Fail(MsgNetwork)
  /\ IF SaveWrites(closure)
       THEN /\ savedRoutes' = UpdatedRoutes(NewRoute(closure, clock + 1),
                                            closure.savedRoutes)
            /\ storedRoutes' = savedRoutes'
            /\ clock' = clock + 1
       ELSE UNCHANGED historyVars
  /\ UNCHANGED << uiVars, crimeData, crimeFetch, routeInfo, mapVars,
                  closure, geocoded, response, chosen, densityCalls, routeRequests,
                  routeUpdate >>
  /\ UNCHANGED sideVars

\* The route request fails
RouteReject ==
  /\ pc = "routing"
  /\ Fail(MsgNetwork)
  /\ UNCHANGED << uiVars, crimeData, crimeFetch, routeInfo, mapVars, historyVars,
                  closure, geocoded, response, chosen, densityCalls, routeRequests,
                  routeUpdate >>
  /\ UNCHANGED sideVars

\* ---------------------------------------------------------- specifications
\* The route responses and data sets of the component's specification
UiRoutes ==
  { [geometry |-> <<Near, Far>>, duration |-> 900, distance |-> 1000],
    [geometry |-> <<Far, Far2>>, duration |-> 700, distance |-> 1400] }

UiResponses ==
  {NoRoutesField} \cup
  { [present |-> TRUE, list |-> l] : l \in UNION { [1..n -> UiRoutes] : n \in 0..MaxRoutes } }

UiCrimeDataSets == { <<>>, <<IncidentAssault>> }

\* The texts change while no search is pending or under way; SearchSpec has
\* the changes that follow each other faster
Next ==
  \/ \E text \in StartTexts : SearchIdle /\ SetStartLocation(text)
  \/ \E text \in EndTexts : SearchIdle /\ SetEndLocation(text)
  \/ SearchTimer
  \/ \E i \in DOMAIN searchRequests : SearchSettles(i)
  \/ \E type \in RouteTypes : SetRouteType(type)
  \/ \E data \in UiCrimeDataSets : CrimeDataLoaded(data)
  \/ CrimeDataFailed
  \/ CalcStart
  \/ \E startFound \in BOOLEAN, endFound \in BOOLEAN : GeocodeResolve(startFound, endFound)
  \/ GeocodeReject
  \/ \E resp \in UiResponses : RouteResolve(resp)
  \/ RouteReject

Spec == Init /\ [][Next]_vars

\* The selection on its own: a calculation that has geocoded both locations
\* and awaits the routes, for every route type and every incident data set.
InitSelect ==
  /\ startLocation = "Penn Station"
  /\ endLocation = "Bryant Park"
  /\ routeType \in RouteTypes
  /\ transportMode = "walking"
  /\ isCalculating = TRUE
  /\ crimeData \in CrimeDataSets
  /\ crimeFetch = "done"
  /\ routeInfo = Null
  /\ currentRoute = Null
  /\ startMarker = TRUE
  /\ endMarker = TRUE
  /\ savedRoutes = <<>>
  /\ storedRoutes = <<>>
  /\ clock = 0
  /\ pc = "routing"
  /\ closure = [startLocation |-> startLocation, endLocation |-> endLocation,
                routeType |-> routeType, transportMode |-> transportMode,
                crimeData |-> crimeData, savedRoutes |-> savedRoutes]
  /\ geocoded = [start |-> TRUE, end |-> TRUE]
  /\ response = Null
  /\ chosen = Null
  /\ densityCalls = 0
  /\ routeRequests = 1
  /\ alertMsg = ""
  /\ routeUpdate = Null
  /\ voice = "idle"
  /\ debounceTimeout = NoTimer
  /\ searchTimers = <<>>
  /\ searchRequests = <<>>
  /\ retry = RetryIdle

NextSelect ==
  \/ \E resp \in Responses : RouteResolve(resp)
  \/ RouteReject

SelectSpec == InitSelect /\ [][NextSelect]_vars

\* The scoring on its own: a calculation with preference Safest that awaits
\* the routes, over paths of two and three points and incidents of every
\* kind of offence description.
DescRobbery == <<"R","O","B","B","E","R","Y">>
DescTheft == <<"T","h","e","f","t">>
DescTheftRobbery == <<"T","H","E","F","T","/","R","O","B","B","E","R","Y">>
DescBurglar == <<"B","U","R","G","L","A","R">>
DescEmpty == <<>>

Descriptions ==
  { DescAssault, DescRobbery, DescBurglary, DescTheft, DescTheftRobbery,
    DescBurglar, DescFrauds, DescEmpty }

\* An incident of every description at Near, a robbery and a theft at Far,
\* the burglary on the boundary of Near and the fraud without a latitude
ScoreIncidents ==
  { [latitude |-> "0", longitude |-> "0", ofns_desc |-> d] : d \in Descriptions }
  \cup
  { [latitude |-> "10", longitude |-> "0", ofns_desc |-> d] : d \in {DescRobbery, DescTheft} }
  \cup
  { IncidentBurglary, IncidentFraud }

\* Up to MaxAssaults assaults at Near, or one of the incidents alone or
\* after an assault at Near
ScoreDataSets ==
  { [i \in 1..a |-> IncidentAssault] : a \in 0..MaxAssaults }
  \cup
  { first \o <<c>> : first \in { <<>>, <<IncidentAssault>> }, c \in ScoreIncidents }

ScoreRoutes ==
  { [geometry |-> <<Near, Far>>, duration |-> 900, distance |-> 1000],
    [geometry |-> <<Near, Far>>, duration |-> 700, distance |-> 1400],
    [geometry |-> <<Far, Near>>, duration |-> 900, distance |-> 1000],
    [geometry |-> <<Far, Near, Far2>>, duration |-> 700, distance |-> 1400],
    [geometry |-> <<Near, Far, Near>>, duration |-> 900, distance |-> 1000],
    [geometry |-> <<Near, Near>>, duration |-> 0, distance |-> 0] }

ScoreResponses ==
  { [present |-> TRUE, list |-> l] : l \in UNION { [1..n -> ScoreRoutes] : n \in 0..MaxRoutes } }

InitScore ==
  /\ startLocation = "Penn Station"
  /\ endLocation = "Bryant Park"
  /\ routeType = "safest"
  /\ transportMode = "walking"
  /\ isCalculating = TRUE
  /\ crimeData \in ScoreDataSets
  /\ crimeFetch = "done"
  /\ routeInfo = Null
  /\ currentRoute = Null
  /\ startMarker = TRUE
  /\ endMarker = TRUE
  /\ savedRoutes = <<>>
  /\ storedRoutes = <<>>
  /\ clock = 0
  /\ pc = "routing"
  /\ closure = [startLocation |-> startLocation, endLocation |-> endLocation,
                routeType |-> routeType, transportMode |-> transportMode,
                crimeData |-> crimeData, savedRoutes |-> savedRoutes]
  /\ geocoded = [start |-> TRUE, end |-> TRUE]
  /\ response = Null
  /\ chosen = Null
  /\ densityCalls = 0
  /\ routeRequests = 1
  /\ alertMsg = ""
  /\ routeUpdate = Null
  /\ voice = "idle"
  /\ debounceTimeout = NoTimer
  /\ searchTimers = <<>>
  /\ searchRequests = <<>>
  /\ retry = RetryIdle

NextScore ==
  \/ \E resp \in ScoreResponses : RouteResolve(resp)
  \/ RouteReject

ScoreSpec == InitScore /\ [][NextScore]_vars

\* The selection under every transport mode and with or without a history:
\* a calculation that awaits the routes, after an earlier one was saved or
\* not, while the transport mode select stays enabled.
EarlierRoute ==
  [startLocation |-> "Bryant Park", endLocation |-> "Penn Station",
   transportMode |-> "walking", routeType |-> "fastest", timestamp |-> 1]

Histories == { <<>>, <<EarlierRoute>> }

ModeCrimeDataSets == { <<>>, <<IncidentAssault>>, <<IncidentAssault, IncidentBurglary>> }

InitMode ==
  /\ startLocation = "Penn Station"
  /\ endLocation = "Bryant Park"
  /\ routeType \in RouteTypes
  /\ transportMode \in TransportModes
  /\ isCalculating = TRUE
  /\ crimeData \in ModeCrimeDataSets
  /\ crimeFetch = "done"
  /\ routeInfo = Null
  /\ currentRoute = Null
  /\ startMarker = TRUE
  /\ endMarker = TRUE
  /\ savedRoutes \in Histories
  /\ storedRoutes = savedRoutes
  /\ clock = Len(savedRoutes)
  /\ pc = "routing"
  /\ closure = [startLocation |-> startLocation, endLocation |-> endLocation,
                routeType |-> routeType, transportMode |-> transportMode,
                crimeData |-> crimeData, savedRoutes |-> savedRoutes]
  /\ geocoded = [start |-> TRUE, end |-> TRUE]
  /\ response = Null
  /\ chosen = Null
  /\ densityCalls = 0
  /\ routeRequests = 1
  /\ alertMsg = ""
  /\ routeUpdate = Null
  /\ voice = "idle"
  /\ debounceTimeout = NoTimer
  /\ searchTimers = <<>>
  /\ searchRequests = <<>>
  /\ retry = RetryIdle

NextMode ==
  \/ \E mode \in TransportModes : SetTransportMode(mode)
  \/ \E resp \in Responses : RouteResolve(resp)
  \/ RouteReject

ModeSpec == InitMode /\ [][NextMode]_vars

\* The route history on its own: a component mounted on a stored history,
\* whose user changes the preference, calculates and deletes entries.  The stored histories are those earlier
\* sessions leave: newest first, no two entries with the same four fields.
MaxSaves == 2

StoredModes == << "cycling", "walking", "driving" >>
StoredTypes == << "safest", "fastest" >>
StoredEnds == << "Times Square", "Bryant Park" >>

\* The k-th route an earlier session saved
StoredRoute(k) ==
  [startLocation |-> "Penn Station",
   endLocation |-> StoredEnds[((k - 1) \div 6) + 1],
   transportMode |-> StoredModes[((k - 1) % 3) + 1],
   routeType |-> StoredTypes[(((k - 1) \div 3) % 2) + 1],
   timestamp |-> k]

\* JSON.parse(localStorage.getItem('savedRoutes')) after n saves
StoredHistory(n) == [i \in 1..n |-> StoredRoute(n + 1 - i)]

StoredLengths == {0, SavedRoutesCap}

\* deleteRoute: the entries with another timestamp stay, and are persisted
DeleteRoute(timestamp) ==
  /\ savedRoutes' = SelectSeq(savedRoutes, LAMBDA route : route.timestamp # timestamp)
  /\ storedRoutes' = savedRoutes'
  /\ UNCHANGED << uiVars, isCalculating, crimeData, crimeFetch, routeInfo, mapVars,
                  clock, pc, closure, calcVars >>
  /\ UNCHANGED sideVars

\* The delete buttons of the first and the last entry shown
ShownEnds == { savedRoutes[i] : i \in {1, Len(savedRoutes)} \cap DOMAIN savedRoutes }

HistoryResponses ==
  { NoRoutesField,
    [present |-> TRUE, list |-> << [geometry |-> <<Near, Far>>, duration |-> 900,
                                    distance |-> 1000] >>] }

InitHistory ==
  /\ startLocation = "Penn Station"
  /\ endLocation = "Bryant Park"
  /\ routeType = "fastest"
  /\ transportMode = "walking"
  /\ isCalculating = FALSE
  /\ crimeData = <<>>
  /\ crimeFetch = "done"
  /\ routeInfo = Null
  /\ currentRoute = Null
  /\ startMarker = FALSE
  /\ endMarker = FALSE
  /\ savedRoutes \in { StoredHistory(n) : n \in StoredLengths }
  /\ storedRoutes = savedRoutes
  /\ clock = SavedRoutesCap
  /\ pc = "idle"
  /\ closure = Null
  /\ geocoded = Null
  /\ response = Null
  /\ chosen = Null
  /\ densityCalls = 0
  /\ routeRequests = 0
  /\ alertMsg = ""
  /\ routeUpdate = Null
  /\ voice = "idle"
  /\ debounceTimeout = NoTimer
  /\ searchTimers = <<>>
  /\ searchRequests = <<>>
  /\ retry = RetryIdle

NextHistory ==
  \/ \E type \in RouteTypes : SetRouteType(type)
  \/ \E route \in ShownEnds : DeleteRoute(route.timestamp)
  \/ (clock < SavedRoutesCap + MaxSaves /\ CalcStart)
  \/ GeocodeResolve(TRUE, TRUE)
  \/ \E resp \in HistoryResponses : RouteResolve(resp)

HistorySpec == InitHistory /\ [][NextHistory]_vars

\* The component without the duplicate test and without onRouteUpdate:
\* its saveRoute writes whenever both texts are set
SaveWritesVariant(cl) ==
  /\ cl.startLocation # ""
  /\ cl.endLocation # ""

\* That component's route request answered with resp
RouteResolveVariant(resp) ==
  /\ pc = "routing"
  /\ response' = resp
  /\ IF NoRoutes(resp)
       THEN /\ Fail(MsgNoRoutes)
            /\ UNCHANGED << routeInfo, currentRoute, historyVars, chosen, densityCalls >>
       ELSE /\ chosen' = ChooseRoute(resp.list, closure.routeType, closure.crimeData)
            /\ densityCalls' = DensityCalls(resp.list, closure.routeType)
            /\ routeInfo' = [duration |-> chosen'.duration, distance |-> chosen'.distance]
            /\ currentRoute' = [coords |-> chosen'.coords, routeType |-> closure.routeType,
                                transportMode |-> closure.transportMode]
            /\ IF Len(chosen'.coords) = 0
                 THEN /\ Fail(MsgBounds)
                      /\ UNCHANGED historyVars
                 ELSE /\ IF SaveWritesVariant(closure)
                           THEN /\ savedRoutes' =
                                     UpdatedRoutes(NewRoute(closure, clock + 1),
                                                   closure.savedRoutes)
                                /\ storedRoutes' = savedRoutes'
                                /\ clock' = clock + 1
                           ELSE UNCHANGED historyVars
                      /\ isCalculating' = FALSE
                      /\ pc' = "idle"
                      /\ UNCHANGED alertMsg
  /\ UNCHANGED << uiVars, crimeData, crimeFetch, startMarker, endMarker, closure,
                  geocoded, routeRequests, routeUpdate >>
  /\ UNCHANGED sideVars

NextVariant ==
  \/ \E type \in RouteTypes : SetRouteType(type)
  \/ \E route \in ShownEnds : DeleteRoute(route.timestamp)
  \/ (clock < SavedRoutesCap + MaxSaves /\ CalcStart)
  \/ GeocodeResolve(TRUE, TRUE)
  \/ \E resp \in HistoryResponses : RouteResolveVariant(resp)

\* That component, mounted on the same stored histories
VariantSpec == InitHistory /\ [][NextVariant]_vars

\* ------------------------------------------------------------ speech input
\* What the calculateRoute of the first render holds: the speech handlers
\* are set in an effect without dependencies, so their calculateRoute is the
\* one of the render at mount, whose state is the initial state
MountClosure ==
  [startLocation |-> "", endLocation |-> "", routeType |-> "fastest",
   transportMode |-> "walking", isCalculating |-> FALSE, crimeData |-> <<>>,
   savedRoutes |-> <<>>]

\* if (!startLocation || !endLocation || isCalculating) return;
CalculateReturns(cl) == cl.startLocation = "" \/ cl.endLocation = "" \/ cl.isCalculating

MsgNotUnderstood == "Could not understand the locations. Please try again."
MsgSpeech == "Error processing speech. Please try again."

\* What processVoiceInput resolves with: null, or the locations with or
\* without a transport mode and a route type ("" when the field is absent)
VoiceResults ==
  {Null} \cup
  [startLocation : {"Penn Station"}, endLocation : {"Bryant Park"},
   transportMode : {"", "driving"}, routeType : {"", "safest"}]

\* onresult: the transcript goes to processVoiceInput
VoiceHeard ==
  /\ voice = "idle"
  /\ voice' = "processing"
  /\ UNCHANGED << uiVars, isCalculating, crimeData, crimeFetch, routeInfo, mapVars,
                  historyVars, pc, closure, calcVars, searchVars, retry >>

\* processVoiceInput resolves: the fields are set (the effect on [routeType]
\* clears the map) and calculateRoute is scheduled, or the alert
VoiceParsed(locations) ==
  /\ voice = "processing"
  /\ IF locations = Null
       THEN /\ alertMsg' = MsgNotUnderstood
            /\ voice' = "idle"
            /\ UNCHANGED << uiVars, mapVars >>
       ELSE /\ startLocation' = locations.startLocation
            /\ endLocation' = locations.endLocation
            /\ transportMode' = IF locations.transportMode # ""
                                  THEN locations.transportMode ELSE transportMode
            /\ routeType' = IF locations.routeType # ""
                              THEN locations.routeType ELSE routeType
            /\ IF routeType' # routeType
                 THEN currentRoute' = Null /\ startMarker' = FALSE /\ endMarker' = FALSE
                 ELSE UNCHANGED mapVars
            /\ voice' = "scheduled"
            /\ UNCHANGED alertMsg
  /\ UNCHANGED << isCalculating, crimeData, crimeFetch, routeInfo, historyVars, pc,
                  closure, geocoded, response, chosen, densityCalls, routeRequests,
                  routeUpdate, searchVars, retry >>

\* processVoiceInput rejects
VoiceRejected ==
  /\ voice = "processing"
  /\ alertMsg' = MsgSpeech
  /\ voice' = "idle"
  /\ UNCHANGED << uiVars, isCalculating, crimeData, crimeFetch, routeInfo, mapVars,
                  historyVars, pc, closure, geocoded, response, chosen, densityCalls,
                  routeRequests, routeUpdate, searchVars, retry >>

\* The timer of onresult fires: calculateRoute of the first render runs
VoiceTimer ==
  /\ voice = "scheduled"
  /\ voice' = "idle"
  /\ IF CalculateReturns(MountClosure)
       THEN UNCHANGED << isCalculating, routeInfo, mapVars, pc, closure, calcVars >>
       ELSE /\ isCalculating' = TRUE
            /\ currentRoute' = Null
            /\ startMarker' = FALSE
            /\ endMarker' = FALSE
            /\ routeInfo' = Null
            /\ closure' = [startLocation |-> MountClosure.startLocation,
                           endLocation |-> MountClosure.endLocation,
                           routeType |-> MountClosure.routeType,
                           transportMode |-> MountClosure.transportMode,
                           crimeData |-> MountClosure.crimeData,
                           savedRoutes |-> MountClosure.savedRoutes]
            /\ pc' = "geocoding"
            /\ geocoded' = Null
            /\ response' = Null
            /\ chosen' = Null
            /\ densityCalls' = 0
            /\ routeRequests' = 0
            /\ alertMsg' = ""
            /\ routeUpdate' = Null
  /\ UNCHANGED << uiVars, crimeData, crimeFetch, historyVars, searchVars, retry >>

NextVoice ==
  \/ VoiceHeard
  \/ \E locations \in VoiceResults : VoiceParsed(locations)
  \/ VoiceRejected
  \/ VoiceTimer
  \/ \E type \in RouteTypes : SetRouteType(type)
  \/ CalcStart
  \/ \E startFound \in BOOLEAN, endFound \in BOOLEAN : GeocodeResolve(startFound, endFound)
  \/ GeocodeReject
  \/ \E resp \in HistoryResponses : RouteResolve(resp)
  \/ RouteReject

VoiceSpec == Init /\ [][NextVoice]_vars

\* The component when its requests settle: a pending geocoding or route
\* request is answered or fails in the end
Settle ==
  \/ \E startFound \in BOOLEAN, endFound \in BOOLEAN : GeocodeResolve(startFound, endFound)
  \/ GeocodeReject
  \/ \E resp \in UiResponses : RouteResolve(resp)
  \/ RouteReject

LiveSpec == Init /\ [][Next]_vars /\ WF_vars(Settle)

\* -------------------------------------------------------- retryWithBackoff
DefaultMaxRetries == 3
DefaultInitialDelay == 1000
TooManyRequests == 429

\* The maxRetries a caller passes
RetryLimits == 0..DefaultMaxRetries

\* What the operation rejects with: error.response?.status (0 when the error
\* has no response or no status) and the parsed retry-after header (0 when
\* there is none or it does not parse, which `|| delay` treats alike)
Errors == [status : {0, TooManyRequests, 500}, retryAfter : {0, 250}]

\* What the operation resolves with
Values == { [value |-> "questions"], [value |-> "analysis"] }

\* Mutant of ThrowsOn: one retry more
ThrowsOnLate(r, error) ==
  r.retries > r.maxRetries \/ error.status = 0 \/ error.status # TooManyRequests

\* retries >= maxRetries || !error.response?.status || error.response.status !== 429
ThrowsOn(r, error) ==
  r.retries >= r.maxRetries \/ error.status = 0 \/ error.status # TooManyRequests

\* retryWithBackoff is called: the first operation() is under way
RetryCall(maxRetries, initialDelay) ==
  /\ retry.pc \in {"idle", "returned", "thrown"}
  /\ retry' = [pc |-> "calling", maxRetries |-> maxRetries, retries |-> 0,
               delay |-> initialDelay, invocations |-> 1, wait |-> 0, last |-> Null]
  /\ UNCHANGED << uiVars, isCalculating, crimeData, crimeFetch, routeInfo, mapVars,
                  historyVars, pc, closure, calcVars, voice, searchVars >>

\* return await operation()
OperationResolves(value) ==
  /\ retry.pc = "calling"
  /\ retry' = [retry EXCEPT !.pc = "returned", !.last = value]
  /\ UNCHANGED << uiVars, isCalculating, crimeData, crimeFetch, routeInfo, mapVars,
                  historyVars, pc, closure, calcVars, voice, searchVars >>

\* The catch block: throw error, or wait for retryAfter
OperationRejects(error) ==
  /\ retry.pc = "calling"
  /\ retry' = IF ThrowsOn(retry, error)
                THEN [retry EXCEPT !.pc = "thrown", !.last = error]
                ELSE [retry EXCEPT !.pc = "waiting", !.last = error,
                                   !.wait = IF error.retryAfter # 0
                                              THEN error.retryAfter ELSE retry.delay]
  /\ UNCHANGED << uiVars, isCalculating, crimeData, crimeFetch, routeInfo, mapVars,
                  historyVars, pc, closure, calcVars, voice, searchVars >>

\* The wait is over: delay *= 2; retries++; and operation() again
BackoffElapsed ==
  /\ retry.pc = "waiting"
  /\ retry' = [retry EXCEPT !.pc = "calling", !.delay = retry.delay * 2,
                            !.retries = retry.retries + 1,
                            !.invocations = retry.invocations + 1]
  /\ UNCHANGED << uiVars, isCalculating, crimeData, crimeFetch, routeInfo, mapVars,
                  historyVars, pc, closure, calcVars, voice, searchVars >>

NextRetry ==
  \/ \E maxRetries \in RetryLimits : RetryCall(maxRetries, DefaultInitialDelay)
  \/ \E value \in Values : OperationResolves(value)
  \/ \E error \in Errors : OperationRejects(error)
  \/ BackoffElapsed

RetrySpec == Init /\ [][NextRetry]_vars

\* The location search on its own: the user types into the two fields,
\* with at most MaxPending timers and searches under way
MaxPending == 3

TypedStartTexts == {"", "P", "Pe", "Pen"}
TypedEndTexts == {"", "B", "Br"}

SearchRoom == Len(searchTimers) + Len(searchRequests) < MaxPending

NextSearch ==
  \/ \E text \in TypedStartTexts : SearchRoom /\ SetStartLocation(text)
  \/ \E text \in TypedEndTexts : SearchRoom /\ SetEndLocation(text)
  \/ SearchTimer
  \/ \E i \in DOMAIN searchRequests : SearchSettles(i)

SearchSpec == Init /\ [][NextSearch]_vars

\* ================================================================== claims
\* The candidate list of the calculation whose route request was answered
HasCandidates == response # Null /\ response.present /\ Len(response.list) > 0
Candidates == response.list

\* A selection was made
Selected == HasCandidates /\ chosen # Null

\* What `chosen` holds of candidate i apart from a score
Plain(r) == [coords |-> ToCoords(r.geometry), duration |-> r.duration, distance |-> r.distance]
PlainChosen == [coords |-> chosen.coords, duration |-> chosen.duration, distance |-> chosen.distance]

\* The score of candidate i on the incident data the calculation used
ScoreOf(i) == RouteScore(Candidates[i], closure.crimeData)

\* C1: with preference Safest and at least two candidates, the chosen route is
\* a candidate, carries that candidate's score, and no candidate has a
\* strictly smaller score.
C1_SafestMinimalScore ==
  (Selected /\ closure.routeType = "safest" /\ Len(Candidates) >= 2) =>
    \E i \in 1..Len(Candidates) :
      /\ PlainChosen = Plain(Candidates[i])
      /\ chosen.score = ScoreOf(i)
      /\ \A j \in 1..Len(Candidates) : ~FLess(ScoreOf(j), chosen.score)

\* C1 witness: the safest choice is made although another candidate is
\* strictly shorter and has a strictly larger score.
C1_Witness ==
  /\ Selected /\ closure.routeType = "safest" /\ Len(Candidates) >= 2
  /\ \E j \in 1..Len(Candidates) :
       /\ Candidates[j].distance < chosen.distance
       /\ FLess(chosen.score, ScoreOf(j))

\* C2: with preference Fastest the chosen route is a candidate of least
\* distance, no density is computed, and the choice is the same for every
\* incident data set.
C2_FastestMinimalDistance ==
  (Selected /\ closure.routeType = "fastest") =>
    /\ \E i \in 1..Len(Candidates) :
         /\ PlainChosen = Plain(Candidates[i])
         /\ \A j \in 1..Len(Candidates) : Candidates[j].distance >= chosen.distance
    /\ chosen.score = Undefined
    /\ densityCalls = 0
    /\ \A data \in CrimeDataSets : ChooseRoute(Candidates, "fastest", data) = chosen

\* C2 witness: the fastest choice is the strictly shortest candidate although
\* another candidate has a strictly smaller score on the incident data.
C2_Witness ==
  /\ Selected /\ closure.routeType = "fastest" /\ Len(Candidates) >= 2
  /\ \E i, j \in 1..Len(Candidates) :
       /\ PlainChosen = Plain(Candidates[i])
       /\ Candidates[i].distance < Candidates[j].distance
       /\ FLess(ScoreOf(j), ScoreOf(i))

\* The value the selection compares of candidate i
ValueOf(i) ==
  IF UsesScoring(Candidates, closure.routeType) THEN ScoreOf(i)
  ELSE Num(Candidates[i].distance)

\* Candidate i holds the minimal value and no earlier candidate holds it
FirstMinimal(i) ==
  /\ \A j \in 1..Len(Candidates) : FLessEq(ValueOf(i), ValueOf(j))
  /\ \A j \in 1..(i - 1) : ValueOf(j) # ValueOf(i)

\* C3: the chosen route is the first candidate, in list order, that holds the
\* minimal value (score under Safest with two or more candidates, distance
\* otherwise).
C3_FirstOfTies ==
  Selected =>
    \A i \in 1..Len(Candidates) :
      FirstMinimal(i) =>
        /\ PlainChosen = Plain(Candidates[i])
        /\ UsesScoring(Candidates, closure.routeType) => chosen.score = ScoreOf(i)

\* C3 witness: two candidates of different geometry share the minimal score
\* and the first of them was chosen by score.
C3_Witness ==
  /\ Selected /\ UsesScoring(Candidates, closure.routeType)
  /\ \E i, j \in 1..Len(Candidates) :
       /\ i < j
       /\ FirstMinimal(i)
       /\ ValueOf(j) = ValueOf(i)
       /\ Candidates[j].geometry # Candidates[i].geometry
       /\ PlainChosen = Plain(Candidates[i])

\* C4: with preference Safest and exactly one candidate the selection returns
\* that candidate without a score, no density is computed, the route is
\* reported, and the choice is the same for every incident data set; with at
\* least two points the calculation ends without an error.
C4_SingleCandidateUnscored ==
  (HasCandidates /\ closure.routeType = "safest" /\ Len(Candidates) = 1) =>
    /\ chosen # Null
    /\ PlainChosen = Plain(Candidates[1])
    /\ chosen.score = Undefined
    /\ densityCalls = 0
    /\ routeInfo = [duration |-> Candidates[1].duration, distance |-> Candidates[1].distance]
    /\ \A data \in CrimeDataSets : ChooseRoute(Candidates, "safest", data) = chosen
    /\ Len(Candidates[1].geometry) >= 2 => (alertMsg = "" /\ routeUpdate # Null)

\* C4 witness: a single candidate through a point with incidents in radius
\* was chosen under Safest.
C4_Witness ==
  /\ Selected /\ closure.routeType = "safest" /\ Len(Candidates) = 1
  /\ Len(chosen.coords) >= 2
  /\ \E i \in 1..Len(chosen.coords) :
       calculateCrimeDensity(closure.crimeData, chosen.coords[i][1], chosen.coords[i][2],
                             Radius) > 0
  /\ alertMsg = ""

\* The routes and the incident data of the end-to-end scenario
ScenarioA == [geometry |-> <<Near, Far>>, duration |-> 900, distance |-> 1000]
ScenarioB == [geometry |-> <<Far, Far2>>, duration |-> 700, distance |-> 1400]
ScenarioData == <<IncidentAssault, IncidentAssault, IncidentAssault>>
ScenarioDensity == 3 * MaxWeight

InScenario ==
  /\ Selected
  /\ Candidates \in { <<ScenarioA, ScenarioB>>, <<ScenarioB, ScenarioA>> }
  /\ closure.crimeData = ScenarioData

\* C5: in the scenario A's first point has density 24 and no point of B has
\* any; Safest chooses B and Fastest chooses A.
C5_Scenario ==
  InScenario =>
    /\ calculateCrimeDensity(ScenarioData, Near[2], Near[1], Radius) = ScenarioDensity
    /\ calculateCrimeDensity(ScenarioData, Far[2], Far[1], Radius) = 0
    /\ calculateCrimeDensity(ScenarioData, Far2[2], Far2[1], Radius) = 0
    /\ closure.routeType = "safest" => PlainChosen = Plain(ScenarioB)
    /\ closure.routeType = "fastest" => PlainChosen = Plain(ScenarioA)

\* C5 witness: the scenario under Safest, B chosen
C5_Witness ==
  /\ InScenario
  /\ closure.routeType = "safest"
  /\ chosen.distance = ScenarioB.distance
  /\ FLess(chosen.score, RouteScore(ScenarioA, ScenarioData))

\* A candidate path with fewer than 2 points was supplied
HasDegenerate ==
  HasCandidates /\ \E i \in 1..Len(Candidates) : Len(Candidates[i].geometry) < 2

\* C6: a candidate list holding a path of fewer than 2 points makes the
\* selection fail: no route is chosen, drawn or reported.
C6_DegenerateRejected ==
  HasDegenerate =>
    /\ chosen = Null
    /\ routeInfo = Null
    /\ currentRoute = Null
    /\ routeUpdate = Null
    /\ alertMsg # ""

\* C7: an empty or missing candidate list makes the calculation fail with
\* 'No routes returned.': nothing is chosen, routeInfo is null, no polyline
\* is on the map and onRouteUpdate was not called.
C7_NoRoutesFails ==
  (response # Null /\ NoRoutes(response)) =>
    /\ alertMsg = MsgNoRoutes
    /\ chosen = Null
    /\ routeInfo = Null
    /\ currentRoute = Null
    /\ routeUpdate = Null
    /\ ~isCalculating

\* C7 witness: after an earlier calculation had reported and saved a route,
\* a calculation was answered with an empty list of routes.
C7_Witness ==
  /\ response # Null /\ response.present /\ Len(response.list) = 0
  /\ Len(savedRoutes) > 0
  /\ alertMsg = MsgNoRoutes

\* The incident's latitude or longitude parses to NaN
NonNumeric(crime) ==
  ParseFloat(crime.latitude) = NaN \/ ParseFloat(crime.longitude) = NaN

\* C8: a calculation that computes densities, for paths of at least 2 points,
\* over an incident with a non-numeric coordinate fails.
C8_NonNumericRejected ==
  ( /\ HasCandidates
    /\ ~HasDegenerate
    /\ UsesScoring(Candidates, closure.routeType)
    /\ \E k \in 1..Len(closure.crimeData) : NonNumeric(closure.crimeData[k]) )
  => (chosen = Null /\ alertMsg # "")

\* The geocoding answered without a result for the start or the end
GeocodeFailed == geocoded # Null /\ (~geocoded.start \/ ~geocoded.end)

\* C9: the alert tells the two failures apart -- 'Could not find one of the
\* locations.' exactly when geocoding gave no result for a location, 'No
\* routes returned.' exactly when the route response held no route -- and
\* on the geocoding failure no route request was made.
C9_DistinctFailures ==
  /\ (alertMsg = MsgNotFound) <=> GeocodeFailed
  /\ (alertMsg = MsgNoRoutes) <=> (response # Null /\ NoRoutes(response))
  /\ GeocodeFailed => (routeRequests = 0 /\ response = Null /\ ~isCalculating)
  /\ MsgNotFound # MsgNoRoutes

\* C9 witness: the start was found, the end was not
C9_Witness ==
  /\ geocoded # Null /\ geocoded.start /\ ~geocoded.end
  /\ alertMsg = MsgNotFound
  /\ routeRequests = 0

\* The points whose density a calculation that ended without an alert computed
ScoredPoints ==
  IF HasCandidates /\ UsesScoring(Candidates, closure.routeType) /\ alertMsg = ""
    THEN UNION { { ToCoords(Candidates[i].geometry)[n] : n \in 1..Len(Candidates[i].geometry) } :
                 i \in 1..Len(Candidates) }
    ELSE {}

\* The data set without its k-th incident
Without(data, k) == SubSeq(data, 1, k - 1) \o SubSeq(data, k + 1, Len(data))

\* What the k-th incident adds to the density at point p
Contribution(data, k, p) ==
  calculateCrimeDensity(data, p[1], p[2], Radius)
    - calculateCrimeDensity(Without(data, k), p[1], p[2], Radius)

\* The k-th incident is at a distance of exactly the radius from p
OnBoundary(data, k, p) == DistanceSquared(data[k], p[1], p[2]) = Num(Radius * Radius)

\* C10 as stated: an incident at a distance of exactly the radius adds
\* nothing to the density.
C10_BoundaryExcluded ==
  \A p \in ScoredPoints : \A k \in 1..Len(closure.crimeData) :
    OnBoundary(closure.crimeData, k, p) => Contribution(closure.crimeData, k, p) = 0

\* C10 amended: an incident at a distance of exactly the radius adds its
\* weight to the density; one strictly farther adds nothing.
C10_BoundaryIncluded ==
  \A p \in ScoredPoints : \A k \in 1..Len(closure.crimeData) :
    /\ OnBoundary(closure.crimeData, k, p) =>
         Contribution(closure.crimeData, k, p) = CrimeWeight(closure.crimeData[k].ofns_desc)
    /\ FGreater(DistanceSquared(closure.crimeData[k], p[1], p[2]), Num(Radius * Radius)) =>
         Contribution(closure.crimeData, k, p) = 0

\* C10 witness: densities were computed at a point with an incident at a
\* distance of exactly the radius, and at a point with one strictly farther.
C10_Witness ==
  /\ \E p \in ScoredPoints : \E k \in 1..Len(closure.crimeData) :
       OnBoundary(closure.crimeData, k, p)
  /\ \E p \in ScoredPoints : \E k \in 1..Len(closure.crimeData) :
       FGreater(DistanceSquared(closure.crimeData[k], p[1], p[2]), Num(Radius * Radius))


\* The density at point p = <<lat, lon>> on the data set
DensityAt(data, p) == calculateCrimeDensity(data, p[1], p[2], Radius)

\* The data set with incident c put in after its k-th incident
InsertAt(data, k, c) == SubSeq(data, 1, k) \o <<c>> \o SubSeq(data, k + 1, Len(data))

\* Incident c is at a distance of at most the radius from p, or farther
WithinRadius(c, p) == FLessEq(DistanceSquared(c, p[1], p[2]), Num(Radius * Radius))
OutsideRadius(c, p) == FGreater(DistanceSquared(c, p[1], p[2]), Num(Radius * Radius))

\* The categories of the offence descriptions, and the weight claimed of each
AssaultCategory == { DescAssault, DescRobbery, DescTheftRobbery }
TheftCategory == { DescBurglary, DescTheft }
Unclassified == { DescBurglar, DescFrauds, DescEmpty }

ClaimedWeight(d) ==
  IF d \in AssaultCategory THEN MaxWeight
  ELSE IF d \in TheftCategory THEN MidWeight
  ELSE MinWeight

\* C11: at every point whose density a calculation computed, putting one more
\* incident into the data set, first or last, raises the density by exactly
\* the incident's weight (8 assault category, 5 theft category, 1
\* unclassified) when the incident is within the radius of the point, and
\* leaves it unchanged when the incident is outside the radius.
C11_DensityAdditive ==
  \A p \in ScoredPoints : \A c \in ScoreIncidents : \A k \in {0, Len(closure.crimeData)} :
    /\ WithinRadius(c, p) =>
         DensityAt(InsertAt(closure.crimeData, k, c), p)
           = DensityAt(closure.crimeData, p) + ClaimedWeight(c.ofns_desc)
    /\ OutsideRadius(c, p) =>
         DensityAt(InsertAt(closure.crimeData, k, c), p) = DensityAt(closure.crimeData, p)

\* C11 witness: densities were computed on a data set of several incidents at
\* a point that has an incident of each category within the radius and at a
\* point that has one outside.
C11_Witness ==
  /\ Len(closure.crimeData) >= 2
  /\ \E p \in ScoredPoints :
       /\ DensityAt(closure.crimeData, p) > 0
       /\ \A cat \in { AssaultCategory, TheftCategory, Unclassified } :
            \E c \in ScoreIncidents : c.ofns_desc \in cat /\ WithinRadius(c, p)
  /\ \E p \in ScoredPoints : \E c \in ScoreIncidents : OutsideRadius(c, p)


\* The lower-cased description contains one of the words
ContainsAny(d, words) == \E w \in words : Includes(ToLowerCase(d), w)

\* The descriptions of the incidents a calculation computed densities over
UsedDescriptions ==
  IF HasCandidates /\ UsesScoring(Candidates, closure.routeType)
    THEN { closure.crimeData[k].ofns_desc : k \in 1..Len(closure.crimeData) }
    ELSE {}

\* C12: every offence description a calculation weighs gets exactly one of
\* the weights 8, 5, 1, never 0: 8 iff its lower-cased text contains
\* 'assault' or 'robbery' (also when it contains 'burglary' or 'theft' too),
\* 5 iff it contains 'burglary' or 'theft' and neither 'assault' nor
\* 'robbery', 1 otherwise; and that weight is what the incident adds to the
\* density at a point it is within the radius of.
C12_WeightTiers ==
  /\ \A d \in UsedDescriptions :
       LET violent == ContainsAny(d, {StrAssault, StrRobbery})
           property == ContainsAny(d, {StrBurglary, StrTheft})
       IN /\ CrimeWeight(d) \in {MaxWeight, MidWeight, MinWeight}
          /\ CrimeWeight(d) # 0
          /\ CrimeWeight(d) = MaxWeight <=> violent
          /\ CrimeWeight(d) = MidWeight <=> (property /\ ~violent)
          /\ CrimeWeight(d) = MinWeight <=> (~property /\ ~violent)
          /\ d \in Descriptions => CrimeWeight(d) = ClaimedWeight(d)
  /\ \A p \in ScoredPoints : \A k \in 1..Len(closure.crimeData) :
       WithinRadius(closure.crimeData[k], p) =>
         Contribution(closure.crimeData, k, p) \in {MaxWeight, MidWeight, MinWeight}

\* C12 witness: a calculation weighed an incident whose description contains
\* both 'theft' and 'robbery' at a point within its radius, where it added 8.
C12_Witness ==
  \E p \in ScoredPoints : \E k \in 1..Len(closure.crimeData) :
    /\ closure.crimeData[k].ofns_desc = DescTheftRobbery
    /\ WithinRadius(closure.crimeData[k], p)
    /\ Contribution(closure.crimeData, k, p) = MaxWeight


\* A calculation scored its candidates
Scored == HasCandidates /\ UsesScoring(Candidates, closure.routeType)

\* The points of candidate i, as <<lat, lon>>
CoordsOf(i) == ToCoords(Candidates[i].geometry)

\* The sum of density^2.5 over the points i, i+2, i+4, ... of coords; from
\* i = 1 these are the points at indices 0, 2, 4, ...
RECURSIVE EvenIndexSum(_, _, _)
EvenIndexSum(coords, data, i) ==
  IF i > Len(coords) THEN 0
  ELSE Pow25(DensityAt(data, coords[i])) + EvenIndexSum(coords, data, i + 2)

\* The two data sets give every point at an even index the same density
SameAtEven(coords, data1, data2) ==
  \A n \in 1..Len(coords) :
    (n - 1) % 2 = 0 => DensityAt(data1, coords[n]) = DensityAt(data2, coords[n])

\* The data set changed: one incident more, one incident less, or none left
ChangedData(data) ==
  { data \o <<c>> : c \in ScoreIncidents }
    \cup { Without(data, k) : k \in 1..Len(data) }
    \cup { <<>> }

\* C13: the crime exposure of every scored path is the sum of density^2.5
\* over its points at even indices, and a change of the data set that leaves
\* the densities at the even indices as they were leaves it unchanged.
C13_EvenIndexSampling ==
  Scored =>
    \A i \in 1..Len(Candidates) :
      /\ CrimeScore(CoordsOf(i), closure.crimeData)
           = EvenIndexSum(CoordsOf(i), closure.crimeData, 1)
      /\ \A data2 \in ChangedData(closure.crimeData) :
           SameAtEven(CoordsOf(i), closure.crimeData, data2) =>
             CrimeScore(CoordsOf(i), data2) = CrimeScore(CoordsOf(i), closure.crimeData)

\* C13 witness: a scored path of three points with incidents around its
\* point at index 1, and a change of the data set that changes the density
\* there and at no even index.
C13_Witness ==
  /\ Scored
  /\ \E i \in 1..Len(Candidates) :
       /\ Len(CoordsOf(i)) = 3
       /\ DensityAt(closure.crimeData, CoordsOf(i)[2]) > 0
       /\ \E data2 \in ChangedData(closure.crimeData) :
            /\ SameAtEven(CoordsOf(i), closure.crimeData, data2)
            /\ DensityAt(data2, CoordsOf(i)[2]) # DensityAt(closure.crimeData, CoordsOf(i)[2])


\* The densities at all the points of a path, and the greatest of them
AllDensities(coords, data) == { DensityAt(data, coords[n]) : n \in 1..Len(coords) }
AllPointsMax(coords, data) ==
  CHOOSE m \in AllDensities(coords, data) : \A d \in AllDensities(coords, data) : d <= m

\* The only incidents around the path are around points at odd indices
OnlyOddExposed(coords, data) ==
  /\ \A n \in 1..Len(coords) : (n - 1) % 2 = 0 => DensityAt(data, coords[n]) = 0
  /\ \E n \in 1..Len(coords) : (n - 1) % 2 = 1 /\ DensityAt(data, coords[n]) > 0

\* C14: maxD of every scored path with a point is the greatest density over
\* all its points; a path whose only incidents are around points at odd
\* indices has crime exposure 0 and the score 15 times that greatest
\* density plus the distance penalty.
C14_MaxOverAllPoints ==
  Scored =>
    \A i \in 1..Len(Candidates) :
      Len(CoordsOf(i)) >= 1 =>
        /\ MaxDensity(CoordsOf(i), closure.crimeData)
             = Num(AllPointsMax(CoordsOf(i), closure.crimeData))
        /\ OnlyOddExposed(CoordsOf(i), closure.crimeData) =>
             /\ CrimeScore(CoordsOf(i), closure.crimeData) = 0
             /\ ScoreOf(i) =
                  Num(MaxDensityFactor * AllPointsMax(CoordsOf(i), closure.crimeData) * ScoreScale
                      + DistPenalty(Candidates[i].distance))

\* C14 witness: a scored path of three points has incidents around its
\* point at index 1 only, and the route chosen is another one, of a smaller
\* score.
C14_Witness ==
  /\ Scored /\ chosen # Null
  /\ \E i \in 1..Len(Candidates) :
       /\ Len(CoordsOf(i)) = 3
       /\ OnlyOddExposed(CoordsOf(i), closure.crimeData)
       /\ FLess(Num(DistPenalty(Candidates[i].distance)), ScoreOf(i))
       /\ FLess(chosen.score, ScoreOf(i))


\* crimeExposure + 15 * maxDensity + 8 * (crimeExposure / all points) +
\* 0.0001 * distance for candidate i, in score units
FormulaScore(i) ==
  LET exposure == EvenIndexSum(CoordsOf(i), closure.crimeData, 1)
      maxDensity == AllPointsMax(CoordsOf(i), closure.crimeData)
  IN exposure
       + MaxDensityFactor * maxDensity * ScoreScale
       + AvgDensityFactor * (exposure \div Len(CoordsOf(i)))
       + (Candidates[i].distance * ScoreScale) \div DistPenaltyInverse

\* C15: the score of every scored path of at least 2 points is crimeExposure
\* + 15 * maxDensity + 8 * (crimeExposure / number of all its points) +
\* 0.0001 * distance, and the chosen route carries the score of its candidate.
C15_ScoreFormula ==
  Scored =>
    /\ \A i \in 1..Len(Candidates) :
         Len(CoordsOf(i)) >= 2 => ScoreOf(i) = Num(FormulaScore(i))
    /\ chosen # Null =>
         \E i \in 1..Len(Candidates) :
           PlainChosen = Plain(Candidates[i]) /\ chosen.score = ScoreOf(i)

\* C15 witness: the chosen route has three points, two of them sampled, a
\* positive crime exposure, and its score is the formula's, which differs
\* from what a division by the two sampled points would give.
C15_Witness ==
  /\ Scored /\ chosen # Null
  /\ \E i \in 1..Len(Candidates) :
       /\ PlainChosen = Plain(Candidates[i])
       /\ Len(CoordsOf(i)) = 3
       /\ EvenIndexSum(CoordsOf(i), closure.crimeData, 1) > 0
       /\ chosen.score = Num(FormulaScore(i))
       /\ EvenIndexSum(CoordsOf(i), closure.crimeData, 1) \div 3
            # EvenIndexSum(CoordsOf(i), closure.crimeData, 1) \div 2


\* 0.0001 * distance of candidate i, in score units
PenaltyOf(i) == (Candidates[i].distance * ScoreScale) \div DistPenaltyInverse

\* Candidate i is a well-formed path: at least 2 points, distance >= 0
WellFormed(i) == Len(CoordsOf(i)) >= 2 /\ Candidates[i].distance >= 0

\* C16: the score of every well-formed scored path is a number >= 0, on
\* every data set; on the empty data set it is exactly the distance penalty.
C16_ScoreNonNegative ==
  Scored =>
    /\ \A i \in 1..Len(Candidates) :
         WellFormed(i) =>
           /\ IsNum(ScoreOf(i))
           /\ ScoreOf(i).v >= 0
           /\ closure.crimeData = <<>> => ScoreOf(i) = Num(PenaltyOf(i))
    /\ (chosen # Null /\ \A i \in 1..Len(Candidates) : WellFormed(i)) =>
         (IsNum(chosen.score) /\ chosen.score.v >= 0)

\* C16 witness: on the empty data set paths of distance 0 and of a positive
\* distance were scored, and the one chosen has the score 0.
C16_Witness ==
  /\ Scored /\ chosen # Null
  /\ closure.crimeData = <<>>
  /\ \E i, j \in 1..Len(Candidates) :
       /\ WellFormed(i) /\ WellFormed(j)
       /\ Candidates[i].distance = 0
       /\ Candidates[j].distance > 0
       /\ ScoreOf(j) = Num(PenaltyOf(j))
  /\ chosen.score = Num(0)


\* Candidates i and j have the same incident exposure: the same crime
\* exposure, greatest density and number of points
SameExposure(i, j) ==
  /\ Len(CoordsOf(i)) = Len(CoordsOf(j))
  /\ EvenIndexSum(CoordsOf(i), closure.crimeData, 1)
       = EvenIndexSum(CoordsOf(j), closure.crimeData, 1)
  /\ AllPointsMax(CoordsOf(i), closure.crimeData)
       = AllPointsMax(CoordsOf(j), closure.crimeData)

C18_OneCandidateReported ==
  Selected =>
    \E i \in 1..Len(Candidates) :
      /\ PlainChosen = Plain(Candidates[i])
      /\ routeInfo = [duration |-> Candidates[i].duration,
                      distance |-> Candidates[i].distance]
      /\ currentRoute # Null /\ currentRoute.coords = CoordsOf(i)
      /\ alertMsg = "" =>
           routeUpdate = [path |-> CoordsOf(i), distance |-> Candidates[i].distance,
                          duration |-> Candidates[i].duration]

\* C18 witness: a calculation ended without an error on two candidates that
\* differ in points, duration and distance, and reported the second one.
C18_Witness ==
  /\ Selected /\ alertMsg = "" /\ pc = "idle"
  /\ Len(Candidates) = 2
  /\ Candidates[1].duration # Candidates[2].duration
  /\ Candidates[1].distance # Candidates[2].distance
  /\ Candidates[1].geometry # Candidates[2].geometry
  /\ routeInfo = [duration |-> Candidates[2].duration, distance |-> Candidates[2].distance]
  /\ routeUpdate # Null /\ routeUpdate.path = CoordsOf(2)


\* C19: the route chosen is a function of the ordered candidate list, the
\* incident data and the preference of the calculation alone: whatever the
\* transport mode, the history and the clock, it is the value that function
\* has for them.
C19_Deterministic ==
  Selected =>
    /\ chosen = ChooseRoute(Candidates, closure.routeType, closure.crimeData)
    /\ \A i \in 1..Len(Candidates) : FirstMinimal(i) => PlainChosen = Plain(Candidates[i])

\* C19 witness: a calculation started under driving with a route in the
\* history chose, by score, a route that is not the shortest, after the
\* transport mode was changed back under way.
C19_Witness ==
  /\ Selected
  /\ closure.transportMode = "driving"
  /\ transportMode = "walking"
  /\ Len(closure.savedRoutes) > 0
  /\ clock > 0
  /\ UsesScoring(Candidates, closure.routeType)
  /\ \E j \in 1..Len(Candidates) : Candidates[j].distance < chosen.distance


\* C20: no step of calculateRoute, ending well or in an error, changes the
\* incident data, in the state or as the calculation holds it, and the
\* candidate list it was given stays as given until the next calculation
\* starts.
C20_SelectionFrame ==
  [][ (pc' # pc) =>
        /\ crimeData' = crimeData
        /\ pc # "idle" => closure' = closure
        /\ response # Null =>
             \/ response' = response
             \/ pc = "idle" /\ response' = Null ]_vars

\* C20 witness: a calculation scored its candidates over a data set with
\* incidents and ended, and the data set is the one it started with.
C20_Witness ==
  /\ pc = "idle"
  /\ Scored /\ chosen # Null
  /\ alertMsg = ""
  /\ Len(crimeData) > 0
  /\ crimeData = closure.crimeData
  /\ chosen.score # Undefined

\* ------------------------------------------------------------------- C21
\* The entries are in the order of their saving, the latest in front
NewestFirst(saved) ==
  \A i \in 1..Len(saved), j \in 1..Len(saved) :
    i < j => saved[i].timestamp > saved[j].timestamp

\* The step stored a route saved now
SaveStep == clock' # clock

\* C21: the route history holds at most ten entries, newest first, and a
\* save into a full history puts the new entry in front of the former
\* entries without the oldest of them.
C21_HistoryCapped ==
  [][ /\ Len(savedRoutes) <= SavedRoutesCap /\ NewestFirst(savedRoutes)
      /\ Len(savedRoutes') <= SavedRoutesCap /\ NewestFirst(savedRoutes')
      /\ (SaveStep /\ Len(savedRoutes) = SavedRoutesCap =>
            /\ Len(savedRoutes') = SavedRoutesCap
            /\ savedRoutes'[1] = NewRoute(closure, clock')
            /\ \A i \in 1..(SavedRoutesCap - 1) : savedRoutes'[i + 1] = savedRoutes[i]) ]_vars

\* A calculation ended on a full history, and its route replaced the oldest
C21_Witness ==
  /\ pc = "idle" /\ closure # Null
  /\ Len(closure.savedRoutes) = SavedRoutesCap
  /\ Len(savedRoutes) = SavedRoutesCap
  /\ savedRoutes[1] = NewRoute(closure, clock)
  /\ savedRoutes[SavedRoutesCap] = closure.savedRoutes[SavedRoutesCap - 1]

\* ------------------------------------------------------------------- C22
\* Two entries of the history with the same four fields
SameRoute(a, b) ==
  /\ a.startLocation = b.startLocation
  /\ a.endLocation = b.endLocation
  /\ a.transportMode = b.transportMode
  /\ a.routeType = b.routeType

\* C22: no two entries of the route history agree on start text, end text,
\* travel mode and preference.
C22_NoTwoAlike ==
  \A i \in 1..Len(savedRoutes), j \in 1..Len(savedRoutes) :
    i # j => ~SameRoute(savedRoutes[i], savedRoutes[j])

\* ------------------------------------------------------------------- C23
\* The step ends a calculation in its catch block
FailedStep == isCalculating /\ ~isCalculating' /\ alertMsg' # ""

\* The step ends a calculation that drew and reported a route
SucceededStep ==
  /\ pc = "routing" /\ pc' = "idle" /\ alertMsg' = ""
  /\ currentRoute' # Null /\ routeInfo' # Null

\* C23: a calculation that fails, for a location not found, no routes or a
\* request that throws, leaves savedRoutes and the persisted history as they
\* were; they change only in the step that ends a successful calculation.
C23_SavedOnlyOnSuccess ==
  [][ /\ FailedStep => savedRoutes' = savedRoutes /\ storedRoutes' = storedRoutes
      /\ (savedRoutes' # savedRoutes \/ storedRoutes' # storedRoutes) => SucceededStep ]_vars

\* A calculation failed for want of routes after an earlier one was saved
C23_Witness ==
  /\ pc = "idle" /\ alertMsg = MsgNoRoutes
  /\ Len(savedRoutes) = 1 /\ storedRoutes = savedRoutes
  /\ ~IsDuplicate(NewRoute(closure, 0), savedRoutes)

\* ------------------------------------------------------------------- C28
\* The entry is in the history
InHistory(route, saved) == \E j \in 1..Len(saved) : saved[j] = route

\* C28: an entry that is not in the history enters it only as the route a
\* calculation saves in that step; an entry deleted earlier never returns,
\* also not when a calculation in flight at its deletion saves its route.
C28_DeletedStaysRemoved ==
  [][ \A i \in 1..Len(savedRoutes') :
        \/ InHistory(savedRoutes'[i], savedRoutes)
        \/ SaveStep /\ savedRoutes'[i] = NewRoute(closure, clock') ]_vars

\* ------------------------------------------------------------------- C27
\* C27: the polyline on the map is that of a route selected under the
\* preference now selected, also after the preference was changed while the
\* calculation was in flight.
C27_ShownUnderPreference ==
  currentRoute # Null => currentRoute.routeType = routeType

\* ------------------------------------------------------------------- C24
\* The timer set by onresult fires
VoiceTimerStep == voice = "scheduled" /\ voice' = "idle"

\* C24: when the timer set after a parsed speech input fires and no
\* calculation is in flight, calculateRoute passes its guard and reaches the
\* geocoding step with the locations the speech input set.
C24_VoiceStartsCalculation ==
  [][ VoiceTimerStep /\ ~isCalculating =>
        /\ pc' = "geocoding"
        /\ closure'.startLocation = startLocation
        /\ closure'.endLocation = endLocation ]_vars

\* ------------------------------------------------------------------- C26
\* The step sends the geocoding requests of a calculation
StartStep == pc' = "geocoding" /\ pc # "geocoding"

C25_CalculationEnds == isCalculating ~> ~isCalculating

\* A calculation was started, its route request failed, and it has ended
C25_Witness ==
  /\ closure # Null /\ routeRequests = 1
  /\ alertMsg = MsgNetwork
  /\ ~isCalculating /\ pc = "idle"

\* ------------------------------------------------------------------- C29
\* The operation failed in this step
RejectStep == retry.pc = "calling" /\ retry'.pc \in {"waiting", "thrown"}

\* C29: retryWithBackoff calls the operation again only after a failure with
\* status 429 and with retries left, at most maxRetries + 1 times in all;
\* every other failure and the failure of the last call are thrown, as the
\* error the operation gave; a success returns the operation's result
\* without another call.
C29_RetryOnly429 ==
  [][ /\ retry'.invocations <= retry'.maxRetries + 1
      /\ retry'.maxRetries = DefaultMaxRetries => retry'.invocations <= 4
      /\ RejectStep =>
           /\ retry'.pc = "waiting" <=>
                retry'.last.status = TooManyRequests /\ retry.retries < retry.maxRetries
           /\ retry'.last \in Errors
           /\ retry'.invocations = retry.invocations
      /\ retry'.invocations > retry.invocations /\ retry.pc # "idle" /\ retry'.retries > 0 =>
           retry.pc = "waiting" /\ retry.last.status = TooManyRequests
      /\ retry.pc = "calling" /\ retry'.pc = "returned" =>
           retry'.last \in Values /\ retry'.invocations = retry.invocations ]_vars

\* The default three retries were used up and the fourth failure was thrown
C29_Witness ==
  /\ retry.pc = "thrown" /\ retry.maxRetries = DefaultMaxRetries
  /\ retry.invocations = DefaultMaxRetries + 1
  /\ retry.last.status = TooManyRequests

\* ------------------------------------------------------------------- C30
\* The step sends a search request, for the query of the timer that fires
SearchRequestStep == Len(searchRequests') > Len(searchRequests)

\* The text the field of the timer holds
FieldText(timer) == IF timer.field = "start" THEN startLocation ELSE endLocation

\* A later change of the same field is waiting for its timer: it came less
\* than the wait after the change whose timer fires now
LaterChangePending ==
  \E i \in 2..Len(searchTimers) : searchTimers[i].field = Head(searchTimers).field

\* C30: of the changes of a field that follow each other within the wait,
\* only the last sends a search request, and it is for the field's text.
C30_Debounced ==
  [][ SearchRequestStep =>
        /\ ~LaterChangePending
        /\ Head(searchTimers).query = FieldText(Head(searchTimers))
        /\ Head(searchTimers).wait = DebounceWait ]_vars

====
